---- MODULE Spec2Model ----
(***************************************************************************)
(* Model of hot_crate (src/src/lib.rs): HotCrate::load, try_reload,        *)
(* force_reload, get, unload, and the filesystem, the external             *)
(* install_name_tool and the OS dynamic loader they talk to.               *)
(*                                                                         *)
(* Every filesystem / loader / subprocess interaction of a call is one     *)
(* step, so that an external builder can rewrite or remove the artifact    *)
(* between two steps of the same call.                                     *)
(***************************************************************************)
EXTENDS Integers, Sequences, FiniteSets, TLC

\* ------------------------------------------------------------------ bounds
\* Number of builds the external builder produces (build 1 is the initial one).
MaxBuild == 3
\* A Manager starts at most this many reload protocols (caps reload_counter).
MaxReloads == 2

\* The modification times the filesystem clock hands out. The program only
\* compares them for equality (lib.rs:122); the initial artifact carries
\* InitialMtime, so a rebuild can come out older, equal or (later) newer.
Timestamps == {0, 1}
InitialMtime == CHOOSE t \in Timestamps : \A u \in Timestamps : u <= t

VARIABLES
    os,         \* target_os the crate was compiled for: "linux" or "macos"
    workspace,  \* what `cargo metadata` reports for main_toml
    files,      \* the filesystem: path -> [bytes, ident, mtime]
    builds,     \* number of builds the external builder has produced so far
    images,     \* the OS loader's images: <<[path, ident, bytes, refs]>>
    handles,    \* every libloading::Library ever created: <<[img, closed, owner]>>
    mgr         \* the HotCrate instances: id -> record (fields, locals, pc, history)

vars == <<os, workspace, files, builds, images, handles, mgr>>

\* ------------------------------------------------------------ small helpers
\* Iterator::find returns the first match: the least matching index
Min(S) == CHOOSE x \in S : \A y \in S : x <= y

\* Result<T>: Ok(v) / Err(e)
Ok(v) == [ok |-> TRUE, val |-> v]
Err(e) == [ok |-> FALSE, err |-> e]

\* Option<SystemTime>: Some(t) is <<t>>, None is <<>>
Some(t) == <<t>>
None == <<>>

\* ---------------------------------------------------------------- platform
\* lib.rs:30-40  DYLIB_EXTENSION, selected by cfg(target_os)
DYLIB_EXTENSION == IF os = "macos" THEN "dylib" ELSE "so"

\* lib.rs:191-195  cfg!(debug_assertions): the model is of a debug build
debug_or_release == "debug"

\* std::env::temp_dir()
temp_dir == "/tmp"

\* The install name (LC_ID_DYLIB) the builder embeds in a freshly built library,
\* and the one `install_name_tool -id "''"` leaves behind (lib.rs:146-150).
BuiltId == "/ws/target/debug/deps/libplugins.dylib"
BlankId == "''"

\* ------------------------------------------------------- workspace metadata
dylibToml == "/ws/plugins/Cargo.toml"

HostPkg ==
    [manifest_path |-> "/ws/Cargo.toml", name |-> "demo",
     targets |-> << [name |-> "demo", crate_types |-> <<"bin">>] >>]

PluginPkg(types) ==
    [manifest_path |-> "/ws/plugins/Cargo.toml", name |-> "plugins",
     targets |-> << [name |-> "build-script-build", crate_types |-> <<"bin">>],
                    [name |-> "plugins", crate_types |-> types] >>]

\* The metadata snapshots `cargo metadata` may report: a workspace with the
\* dylib crate, one without the package, one whose package is an rlib+cdylib.
Workspaces ==
    { [target_directory |-> "/ws/target", packages |-> <<HostPkg, PluginPkg(<<"rlib", "dylib">>)>>],
      [target_directory |-> "/ws/target", packages |-> <<HostPkg>>],
      [target_directory |-> "/ws/target", packages |-> <<HostPkg, PluginPkg(<<"rlib", "cdylib">>)>>] }

\* lib.rs:163-173  find_dylib_pkg; `canon` is whether dylib_toml.canonicalize()
\* succeeds (the manifest exists and its path resolves) at this call
find_dylib_pkg(main_metadata, dylib_toml, canon) ==
    IF ~canon THEN Err("Io")
    ELSE LET pkgs == main_metadata.packages
             I == {i \in 1..Len(pkgs) : pkgs[i].manifest_path = dylib_toml}
         IN  IF I = {} THEN Err("TargetNotFound")
             ELSE Ok(pkgs[Min(I)])

\* Mutant of find_dylib_target: a `cdylib` target is taken too (the TODO of lib.rs:181)
find_dylib_target_cdylib(main_metadata, dylib_toml, canon) ==
    LET p == find_dylib_pkg(main_metadata, dylib_toml, canon)
    IN  IF ~p.ok THEN p
        ELSE LET IsDylib(target) ==
                     \E k \in 1..Len(target.crate_types) :
                         target.crate_types[k] \in {"dylib", "cdylib"}
                 I == {i \in 1..Len(p.val.targets) : IsDylib(p.val.targets[i])}
             IN  IF I = {} THEN Err("NotADynamicLibrary")
                 ELSE Ok(p.val.targets[Min(I)])

\* lib.rs:175-186  find_dylib_target
find_dylib_target(main_metadata, dylib_toml, canon) ==
    LET p == find_dylib_pkg(main_metadata, dylib_toml, canon)
    IN  IF ~p.ok THEN p
        ELSE LET IsDylib(target) ==
                     \E k \in 1..Len(target.crate_types) : target.crate_types[k] = "dylib"
                 I == {i \in 1..Len(p.val.targets) : IsDylib(p.val.targets[i])}
             IN  IF I = {} THEN Err("NotADynamicLibrary")
                 ELSE Ok(p.val.targets[Min(I)])

\* lib.rs:188-201  find_dylib_path
find_dylib_path(main_metadata, dylib_toml, canon) ==
    LET t == find_dylib_target(main_metadata, dylib_toml, canon)
    IN  IF ~t.ok THEN t
        ELSE Ok(main_metadata.target_directory \o "/" \o debug_or_release
                \o "/lib" \o t.val.name \o "." \o DYLIB_EXTENSION)

\* lib.rs:100-107  the path tmp_dylib_path formats for a counter value
TmpPathFor(pkg, target, counter) ==
    temp_dir \o "/hot_crate/" \o pkg.name
        \o "/lib" \o target.name \o "-" \o ToString(counter) \o "." \o DYLIB_EXTENSION

\* Mutants of the increment: left out, and done twice
NextCounterStuck(c) == c
NextCounterTwice(c) == c + 2

\* lib.rs:109  self.reload_counter += 1
NextCounter(c) == c + 1

\* Mutant of tmp_dylib_path: the counter is incremented before the name is formatted
tmp_dylib_path_preinc(main_metadata, dylib_toml, canon, counter) ==
    LET p == find_dylib_pkg(main_metadata, dylib_toml, canon)
        t == find_dylib_target(main_metadata, dylib_toml, canon)
    IN  IF ~p.ok THEN p
        ELSE IF ~t.ok THEN t
        ELSE Ok([path |-> TmpPathFor(p.val, t.val, NextCounter(counter)),
                 counter |-> NextCounter(counter)])

\* lib.rs:96-112  tmp_dylib_path: Ok([path, counter']) or the lookup's error
tmp_dylib_path(main_metadata, dylib_toml, canon, counter) ==
    LET p == find_dylib_pkg(main_metadata, dylib_toml, canon)
        t == find_dylib_target(main_metadata, dylib_toml, canon)
    IN  IF ~p.ok THEN p
        ELSE IF ~t.ok THEN t
        ELSE Ok([path |-> TmpPathFor(p.val, t.val, counter),
                 counter |-> NextCounter(counter)])

\* ------------------------------------------------------------ the OS loader
\* dlopen's view of `path`: the loaded images the loader takes the file for.
\* Every loader returns the image already loaded from the same path; dyld
\* (macOS) also returns a loaded image with the same absolute install name.
CachedImages(path) ==
    {i \in 1..Len(images) :
        /\ images[i].refs > 0
        /\ \/ images[i].path = path
           \/ /\ os = "macos"
              /\ files[path].ident # BlankId
              /\ images[i].ident = files[path].ident}

\* Library::new(path) succeeding: the image the new Library refers to
ImageOfOpen(path) ==
    IF CachedImages(path) # {} THEN Min(CachedImages(path)) ELSE Len(images) + 1

ImagesAfterOpen(path) ==
    IF CachedImages(path) # {}
    THEN [images EXCEPT ![Min(CachedImages(path))].refs = @ + 1]
    ELSE Append(images, [path |-> path, ident |-> files[path].ident,
                         bytes |-> files[path].bytes, refs |-> 1])

HandlesAfterOpen(path, m) ==
    Append(handles, [img |-> ImageOfOpen(path), closed |-> 0, owner |-> m])

\* Library::close / Drop for Library: dlclose on the handle
ImagesAfterClose(imgs, hs, h) == [imgs EXCEPT ![hs[h].img].refs = @ - 1]
HandlesAfterClose(hs, h) == [hs EXCEPT ![h].closed = @ + 1]

\* A Library is usable while it has not been closed and its image is mapped
IsOpen(h) ==
    /\ h \in 1..Len(handles)
    /\ handles[h].closed = 0
    /\ images[handles[h].img].refs > 0

\* Library::get: the export's content is the build the image was mapped from
Exports == {"load_plugin"}
LibGet(h, symbol) ==
    IF ~IsOpen(h) THEN Err("Closed")
    ELSE IF symbol \notin Exports THEN Err("SymbolNotFound")
    ELSE Ok(images[handles[h].img].bytes)

\* --------------------------------------------------------------- filesystem
Exists(path) == path \in DOMAIN files

\* fs::metadata(path)?.modified().ok()
Modified(path) == Some(files[path].mtime)

\* fs::copy(from, to): the destination gets the source's bytes (its embedded
\* install name included); the copy's own mtime is never read by the program.
FilesAfterCopy(from, to) ==
    (to :> files[from]) @@ files

\* --------------------------------------------------------------- HotCrate
NoManager ==
    [pc |-> "start", main_metadata |-> <<>>, dylib_toml |-> dylibToml,
     lib |-> 0, lib_path |-> "", lib_timestamp |-> None, reload_counter |-> 0,
     dylib_path |-> "", tmp_dylib_path |-> "",
     op |-> "load", ret |-> "none", sym |-> 0,
     old_lib |-> 0, old_counter |-> 0, old_timestamp |-> None, was_quiet |-> FALSE, was_stale |-> FALSE,
     swapped |-> FALSE, ran |-> FALSE, commits |-> 0, staged |-> 0,
     tool |-> "none", paths |-> <<>>, quiet |-> FALSE]

Insts == DOMAIN mgr

\* The artifact path of the one dylib target of the modelled workspaces
ArtifactPath == "/ws/target/" \o debug_or_release \o "/libplugins." \o DYLIB_EXTENSION

InitWith(ids) ==
    /\ os \in {"linux", "macos"}
    /\ workspace \in Workspaces
    /\ builds = 1
    /\ files = (ArtifactPath :> [bytes |-> 1, ident |-> BuiltId, mtime |-> InitialMtime])
    /\ images = <<>>
    /\ handles = <<>>
    /\ mgr = [m \in ids |-> NoManager]

Init == InitWith({1})

\* ------------------------------------------------------------------- load
\* lib.rs:69  MetadataCommand::new().manifest_path(main_toml).exec()?
LoadMetadata(m) ==
    /\ mgr[m].pc = "start"
    /\ \E ok \in BOOLEAN :
          mgr' = IF ok
                 THEN [mgr EXCEPT ![m].pc = "load_find", ![m].main_metadata = workspace]
                 ELSE [mgr EXCEPT ![m].pc = "load_failed", ![m].ret = "MetadataFailed"]
    /\ UNCHANGED <<os, workspace, files, builds, images, handles>>

\* lib.rs:70  find_dylib_path(&main_metadata, dylib_toml)?
LoadFind(m) ==
    /\ mgr[m].pc = "load_find"
    /\ \E canon \in BOOLEAN :
          LET r == find_dylib_path(mgr[m].main_metadata, mgr[m].dylib_toml, canon)
          IN  mgr' = IF r.ok
                     THEN [mgr EXCEPT ![m].pc = "load_open", ![m].lib_path = r.val]
                     ELSE [mgr EXCEPT ![m].pc = "load_failed", ![m].ret = r.err]
    /\ UNCHANGED <<os, workspace, files, builds, images, handles>>

\* lib.rs:71  Library::new(&lib_path)?  (the loader may reject an existing file)
LoadOpen(m) ==
    /\ mgr[m].pc = "load_open"
    /\ \E accepted \in BOOLEAN :
          IF accepted /\ Exists(mgr[m].lib_path)
          THEN /\ images' = ImagesAfterOpen(mgr[m].lib_path)
               /\ handles' = HandlesAfterOpen(mgr[m].lib_path, m)
               /\ mgr' = [mgr EXCEPT ![m].pc = "load_stat", ![m].lib = Len(handles) + 1]
          ELSE /\ mgr' = [mgr EXCEPT ![m].pc = "load_failed", ![m].ret = "LoadFailed"]
               /\ UNCHANGED <<images, handles>>
    /\ UNCHANGED <<os, workspace, files, builds>>

\* lib.rs:72-81  fs::metadata(&lib_path)?.modified().ok(); Ok(Self { .. })
\* On the error return the local `lib` is dropped, which closes it.
LoadStat(m) ==
    /\ mgr[m].pc = "load_stat"
    /\ IF Exists(mgr[m].lib_path)
       THEN /\ mgr' = [mgr EXCEPT ![m].pc = "idle", ![m].ret = "ok",
                                  ![m].lib_timestamp = Modified(mgr[m].lib_path),
                                  ![m].reload_counter = 0,
                                  ![m].quiet = TRUE]
            /\ UNCHANGED <<images, handles>>
       ELSE /\ images' = ImagesAfterClose(images, handles, mgr[m].lib)
            /\ handles' = HandlesAfterClose(handles, mgr[m].lib)
            /\ mgr' = [mgr EXCEPT ![m].pc = "load_failed", ![m].ret = "ArtifactUnavailable",
                                  ![m].lib = 0]
    /\ UNCHANGED <<os, workspace, files, builds>>

\* ------------------------------------------------------------- try_reload
\* History kept for the properties: what the Manager looked like when the
\* public call started.
CallStart(m, op) ==
    [mgr[m] EXCEPT !.op = op, !.old_lib = mgr[m].lib,
                   !.old_counter = mgr[m].reload_counter,
                   !.was_quiet = mgr[m].quiet, !.was_stale = FALSE,
                   !.old_timestamp = mgr[m].lib_timestamp,
                   !.swapped = FALSE, !.ran = FALSE, !.tool = "none", !.sym = 0]

\* Mutant of the staleness test: every poll reloads
IsStaleAlways(timestamp, lib_timestamp) == TRUE

\* lib.rs:122  timestamp == self.lib_timestamp, negated
IsStale(timestamp, lib_timestamp) == timestamp # lib_timestamp

\* Mutant of try_reload: the staging path is computed (and the counter bumped)
\* before the timestamps are compared
TryReloadStatEager(m) ==
    /\ mgr[m].pc = "idle"
    /\ mgr[m].reload_counter < MaxReloads
    /\ LET c == [CallStart(m, "try") EXCEPT
                    !.was_stale = Exists(mgr[m].lib_path)
                                    /\ Modified(mgr[m].lib_path) # mgr[m].lib_timestamp,
                    !.reload_counter = NextCounter(mgr[m].reload_counter)]
       IN  IF ~Exists(mgr[m].lib_path)
           THEN mgr' = [mgr EXCEPT ![m] = [c EXCEPT !.ret = "ArtifactUnavailable"]]
           ELSE IF ~IsStale(Modified(mgr[m].lib_path), mgr[m].lib_timestamp)
           THEN mgr' = [mgr EXCEPT ![m] = [c EXCEPT !.ret = "false"]]
           ELSE mgr' = [mgr EXCEPT ![m] = [c EXCEPT !.pc = "fr_locate", !.ret = "none"]]
    /\ UNCHANGED <<os, workspace, files, builds, images, handles>>

\* Mutant of try_reload: an unreadable artifact is taken for one without a
\* timestamp (fs::metadata(..).ok()) and compared like any other
TryReloadStatLenient(m) ==
    /\ mgr[m].pc = "idle"
    /\ LET timestamp == IF Exists(mgr[m].lib_path) THEN Modified(mgr[m].lib_path) ELSE None
           c == [CallStart(m, "try") EXCEPT !.was_stale = timestamp # mgr[m].lib_timestamp]
       IN  IF ~IsStale(timestamp, mgr[m].lib_timestamp)
           THEN mgr' = [mgr EXCEPT ![m] = [c EXCEPT !.ret = "false"]]
           ELSE /\ mgr[m].reload_counter < MaxReloads
                /\ mgr' = [mgr EXCEPT ![m] = [c EXCEPT !.pc = "fr_locate", !.ret = "none"]]
    /\ UNCHANGED <<os, workspace, files, builds, images, handles>>

\* lib.rs:119-124  fs::metadata(&self.lib_path)?.modified().ok() and the comparison
TryReloadStat(m) ==
    /\ mgr[m].pc = "idle"
    /\ LET c == [CallStart(m, "try") EXCEPT
                    !.was_stale = Exists(mgr[m].lib_path)
                                    /\ Modified(mgr[m].lib_path) # mgr[m].lib_timestamp]
       IN  IF ~Exists(mgr[m].lib_path)
           THEN mgr' = [mgr EXCEPT ![m] = [c EXCEPT !.ret = "ArtifactUnavailable"]]
           ELSE IF ~IsStale(Modified(mgr[m].lib_path), mgr[m].lib_timestamp)
           THEN mgr' = [mgr EXCEPT ![m] = [c EXCEPT !.ret = "false"]]
           ELSE /\ mgr[m].reload_counter < MaxReloads
                /\ mgr' = [mgr EXCEPT ![m] = [c EXCEPT !.pc = "fr_locate", !.ret = "none"]]
    /\ UNCHANGED <<os, workspace, files, builds, images, handles>>

\* ----------------------------------------------------------- force_reload
\* What a returning reload reports: try_reload wraps Ok(()) into Ok(true)
OkOf(op) == IF op = "try" THEN "true" ELSE "ok"

\* lib.rs:133-139  find_dylib_pkg?, find_dylib_path?, self.tmp_dylib_path()?
\* Entered from try_reload (lib.rs:125) or directly by the caller.
ForceReloadLocate(m) ==
    /\ \/ mgr[m].pc = "fr_locate"
       \/ mgr[m].pc = "idle" /\ mgr[m].reload_counter < MaxReloads
    /\ \E canon1, canon2, canon3 \in BOOLEAN :
          LET c  == [(IF mgr[m].pc = "idle" THEN CallStart(m, "force") ELSE mgr[m])
                        EXCEPT !.ran = TRUE]
              r1 == find_dylib_pkg(c.main_metadata, c.dylib_toml, canon1)
              r2 == find_dylib_path(c.main_metadata, c.dylib_toml, canon2)
              r3 == tmp_dylib_path(c.main_metadata, c.dylib_toml, canon3, c.reload_counter)
          IN  mgr' = IF ~r1.ok THEN [mgr EXCEPT ![m] = [c EXCEPT !.pc = "idle", !.ret = r1.err]]
                     ELSE IF ~r2.ok THEN [mgr EXCEPT ![m] = [c EXCEPT !.pc = "idle", !.ret = r2.err]]
                     ELSE IF ~r3.ok THEN [mgr EXCEPT ![m] = [c EXCEPT !.pc = "idle", !.ret = r3.err]]
                     ELSE [mgr EXCEPT ![m] =
                              [c EXCEPT !.pc = "fr_stage", !.ret = "none",
                                        !.dylib_path = r2.val,
                                        !.tmp_dylib_path = r3.val.path,
                                        !.reload_counter = r3.val.counter,
                                        !.paths = Append(c.paths, r3.val.path)]]
    /\ UNCHANGED <<os, workspace, files, builds, images, handles>>

\* lib.rs:145  cfg!(target_os = "macos")
AfterStage == IF os = "macos" THEN "fr_tool" ELSE "fr_open"

\* Mutant of staging: the baseline is refreshed before the copy
ForceReloadStageStampsFirst(m) ==
    /\ mgr[m].pc = "fr_stage"
    /\ \E io_ok \in BOOLEAN :
          IF Exists(mgr[m].dylib_path)
          THEN LET c == [mgr[m] EXCEPT !.lib_timestamp = Modified(mgr[m].dylib_path)]
               IN  IF io_ok
                   THEN /\ files' = FilesAfterCopy(mgr[m].dylib_path, mgr[m].tmp_dylib_path)
                        /\ mgr' = [mgr EXCEPT ![m] = [c EXCEPT !.pc = AfterStage]]
                   ELSE /\ mgr' = [mgr EXCEPT ![m] = [c EXCEPT !.pc = "idle",
                                                              !.ret = "StageFailed"]]
                        /\ UNCHANGED files
          ELSE /\ mgr' = [mgr EXCEPT ![m].pc = "idle", ![m].ret = "StageFailed"]
               /\ UNCHANGED files
    /\ UNCHANGED <<os, workspace, builds, images, handles>>

\* lib.rs:141-143  fs::create_dir_all(&tmp_dir)?; fs::copy(&dylib_path, &tmp_dylib_path)?
ForceReloadStage(m) ==
    /\ mgr[m].pc = "fr_stage"
    /\ \E io_ok \in BOOLEAN :
          IF io_ok /\ Exists(mgr[m].dylib_path)
          THEN /\ files' = FilesAfterCopy(mgr[m].dylib_path, mgr[m].tmp_dylib_path)
               /\ mgr' = [mgr EXCEPT ![m].pc = AfterStage]
          ELSE /\ mgr' = [mgr EXCEPT ![m].pc = "idle", ![m].ret = "StageFailed"]
               /\ UNCHANGED files
    /\ UNCHANGED <<os, workspace, builds, images, handles>>

\* What the external tool may do: rewrite the id, exit non-zero, or fail to spawn
ToolOutcomes == {"ok", "nonzero", "spawn_failed"}

\* lib.rs:146-152  Command::new("install_name_tool")...output().expect(..):
\* the exit status is not looked at; a spawn failure panics.
AfterTool(outcome) == IF outcome = "spawn_failed" THEN "panicked" ELSE "fr_open"

ForceReloadTool(m) ==
    /\ mgr[m].pc = "fr_tool"
    /\ \E outcome \in ToolOutcomes :
          /\ files' = IF outcome = "ok"
                      THEN [files EXCEPT ![mgr[m].tmp_dylib_path].ident = BlankId]
                      ELSE files
          /\ mgr' = [mgr EXCEPT ![m].pc = AfterTool(outcome), ![m].tool = outcome,
                                ![m].ret = IF AfterTool(outcome) = "panicked"
                                           THEN "panic" ELSE "none"]
    /\ UNCHANGED <<os, workspace, builds, images, handles>>

\* Mutant of the swap: the old Library is closed before the new one is opened
ForceReloadOpenCloseFirst(m) ==
    /\ mgr[m].pc = "fr_open"
    /\ \E accepted \in BOOLEAN :
          LET imgs0 == ImagesAfterClose(images, handles, mgr[m].lib)
              hs0   == HandlesAfterClose(handles, mgr[m].lib)
              path  == mgr[m].tmp_dylib_path
          IN  IF accepted
              THEN /\ images' = Append(imgs0, [path |-> path, ident |-> files[path].ident,
                                               bytes |-> files[path].bytes, refs |-> 1])
                   /\ handles' = Append(hs0, [img |-> Len(imgs0) + 1, closed |-> 0,
                                              owner |-> m])
                   /\ mgr' = [mgr EXCEPT ![m].pc = "fr_stat",
                                         ![m].lib = Len(handles) + 1,
                                         ![m].lib_path = mgr[m].dylib_path,
                                         ![m].swapped = TRUE,
                                         ![m].commits = @ + 1,
                                         ![m].staged = files[path].bytes]
              ELSE /\ images' = imgs0
                   /\ handles' = hs0
                   /\ mgr' = [mgr EXCEPT ![m].pc = "idle", ![m].ret = "ReopenFailed"]
    /\ UNCHANGED <<os, workspace, files, builds>>

\* lib.rs:155-156  self.lib = unsafe { Library::new(&tmp_dylib_path)? };
\*                 self.lib_path = dylib_path;
\* The new Library is created first; the assignment then drops the old one.
ForceReloadOpen(m) ==
    /\ mgr[m].pc = "fr_open"
    /\ \E accepted \in BOOLEAN :
          IF accepted
          THEN LET path == mgr[m].tmp_dylib_path
                   hs   == HandlesAfterOpen(path, m)
               IN  /\ images' = ImagesAfterClose(ImagesAfterOpen(path), hs, mgr[m].lib)
                   /\ handles' = HandlesAfterClose(hs, mgr[m].lib)
                   /\ mgr' = [mgr EXCEPT ![m].pc = "fr_stat",
                                         ![m].lib = Len(handles) + 1,
                                         ![m].lib_path = mgr[m].dylib_path,
                                         ![m].swapped = TRUE,
                                         ![m].commits = @ + 1,
                                         ![m].staged = files[path].bytes]
          ELSE /\ mgr' = [mgr EXCEPT ![m].pc = "idle", ![m].ret = "ReopenFailed"]
               /\ UNCHANGED <<images, handles>>
    /\ UNCHANGED <<os, workspace, files, builds>>

\* Mutant of the last step: the baseline is not refreshed after the swap
ForceReloadStatKeepsBaseline(m) ==
    /\ mgr[m].pc = "fr_stat"
    /\ mgr' = IF Exists(mgr[m].lib_path)
              THEN [mgr EXCEPT ![m].pc = "idle", ![m].ret = OkOf(mgr[m].op),
                               ![m].quiet = TRUE]
              ELSE [mgr EXCEPT ![m].pc = "idle", ![m].ret = "ArtifactUnavailable"]
    /\ UNCHANGED <<os, workspace, files, builds, images, handles>>

\* lib.rs:157-159  self.lib_timestamp = fs::metadata(&self.lib_path)?.modified().ok(); Ok(())
ForceReloadStat(m) ==
    /\ mgr[m].pc = "fr_stat"
    /\ mgr' = IF Exists(mgr[m].lib_path)
              THEN [mgr EXCEPT ![m].pc = "idle", ![m].ret = OkOf(mgr[m].op),
                               ![m].lib_timestamp = Modified(mgr[m].lib_path),
                               ![m].quiet = TRUE]
              ELSE [mgr EXCEPT ![m].pc = "idle", ![m].ret = "ArtifactUnavailable"]
    /\ UNCHANGED <<os, workspace, files, builds, images, handles>>

\* ------------------------------------------------------------ get, unload
\* lib.rs:89-94  HotCrate::get: self.lib.get(symbol)
Get(m, symbol) == LibGet(mgr[m].lib, symbol)

GetSymbol(m) ==
    /\ mgr[m].pc = "idle"
    /\ \E symbol \in Exports \cup {"no_such_export"} :
          LET r == Get(m, symbol)
          IN  mgr' = [mgr EXCEPT ![m] =
                         IF r.ok
                         THEN [CallStart(m, "get") EXCEPT !.ret = "symbol", !.sym = r.val]
                         ELSE [CallStart(m, "get") EXCEPT !.ret = r.err]]
    /\ UNCHANGED <<os, workspace, files, builds, images, handles>>

\* Mutant of unload: the Manager is consumed without closing its Library
UnloadForget(m) ==
    /\ mgr[m].pc = "idle"
    /\ mgr' = [mgr EXCEPT ![m].pc = "unloaded"]
    /\ UNCHANGED <<os, workspace, files, builds, images, handles>>

\* lib.rs:84-87  unload(self): self.lib.close()
Unload(m) ==
    /\ mgr[m].pc = "idle"
    /\ images' = ImagesAfterClose(images, handles, mgr[m].lib)
    /\ handles' = HandlesAfterClose(handles, mgr[m].lib)
    /\ mgr' = [mgr EXCEPT ![m].pc = "unloaded"]
    /\ UNCHANGED <<os, workspace, files, builds>>

\* ------------------------------------------------------- the environment
\* Once every Manager is gone nothing observes the filesystem any more
Terminal == {"load_failed", "unloaded", "panicked"}
Observed == \E m \in Insts : mgr[m].pc \notin Terminal

\* A change of the artifact's timestamp ends every Manager's quiet period
Disturbed == [m \in Insts |-> [mgr[m] EXCEPT !.quiet = FALSE]]

\* The external builder writes a new build to the artifact path. Its mtime is
\* whatever the filesystem clock gives: newer, older (clock set back) or the
\* same as before (coarse clock).
Rebuild ==
    /\ Observed
    /\ builds < MaxBuild
    /\ builds' = builds + 1
    /\ \E t \in Timestamps :
          /\ files' = (ArtifactPath :> [bytes |-> builds + 1, ident |-> BuiltId, mtime |-> t])
                          @@ files
          /\ mgr' = IF Exists(ArtifactPath) /\ files[ArtifactPath].mtime = t
                    THEN mgr ELSE Disturbed
    /\ UNCHANGED <<os, workspace, images, handles>>

\* The artifact is removed (cargo clean)
RemoveArtifact ==
    /\ Observed
    /\ Exists(ArtifactPath)
    /\ files' = [p \in DOMAIN files \ {ArtifactPath} |-> files[p]]
    /\ mgr' = Disturbed
    /\ UNCHANGED <<os, workspace, builds, images, handles>>

\* ------------------------------------------------------------ specification
Next ==
    \/ \E m \in Insts : LoadMetadata(m)
    \/ \E m \in Insts : LoadFind(m)
    \/ \E m \in Insts : LoadOpen(m)
    \/ \E m \in Insts : LoadStat(m)
    \/ \E m \in Insts : TryReloadStat(m)
    \/ \E m \in Insts : ForceReloadLocate(m)
    \/ \E m \in Insts : ForceReloadStage(m)
    \/ \E m \in Insts : ForceReloadTool(m)
    \/ \E m \in Insts : ForceReloadOpen(m)
    \/ \E m \in Insts : ForceReloadStat(m)
    \/ \E m \in Insts : GetSymbol(m)
    \/ \E m \in Insts : Unload(m)
    \/ Rebuild
    \/ RemoveArtifact

Spec == Init /\ [][Next]_vars

\* ------------------------------------------------------------ two Managers
\* Two HotCrate instances loaded for the same target (in one process or in
\* two): same temp_dir, same package and target names, each counter from 0.
Init2 == InitWith({1, 2})

\* Each of them is loaded and then reloaded by its caller, in any interleaving
\* of the steps of the two; the artifact is left as it is meanwhile.
Next2 ==
    \/ \E m \in Insts : LoadMetadata(m)
    \/ \E m \in Insts : LoadFind(m)
    \/ \E m \in Insts : LoadOpen(m)
    \/ \E m \in Insts : LoadStat(m)
    \/ \E m \in Insts : mgr[m].pc = "idle" /\ ForceReloadLocate(m)
    \/ \E m \in Insts : ForceReloadStage(m)
    \/ \E m \in Insts : ForceReloadTool(m)
    \/ \E m \in Insts : ForceReloadOpen(m)
    \/ \E m \in Insts : ForceReloadStat(m)

Spec2 == Init2 /\ [][Next2]_vars

\* -------------------------------------------------------- the polling caller
\* demo/src/main.rs:17-27: after load the caller looks the export up and then
\* polls for ever; each try_reload runs to its return and the next one follows.
Pollers == {1}

\* "Staging and opening eventually succeed", within the bound on reloads: the
\* copy of an existing artifact or the opening of the staged copy fails only
\* while the Manager has another reload left.
Retryable(m) ==
    /\ (mgr[m].pc = "fr_stage" /\ Exists(mgr[m].dylib_path) /\ mgr'[m].ret = "StageFailed")
          => mgr[m].reload_counter < MaxReloads
    /\ (mgr[m].pc = "fr_open" /\ mgr'[m].ret = "ReopenFailed")
          => mgr[m].reload_counter < MaxReloads

\* One step of a try_reload call
Poll(m) ==
    \/ TryReloadStat(m)
    \/ mgr[m].pc = "fr_locate" /\ ForceReloadLocate(m)
    \/ ForceReloadStage(m) /\ Retryable(m)
    \/ ForceReloadTool(m)
    \/ ForceReloadOpen(m) /\ Retryable(m)
    \/ ForceReloadStat(m)

\* The lookups of force_reload go through (the manifest path resolves)
Located(m) ==
    mgr[m].pc = "fr_locate" /\ ForceReloadLocate(m) /\ mgr'[m].pc = "fr_stage"

PollNext ==
    \/ \E m \in Insts : LoadMetadata(m)
    \/ \E m \in Insts : LoadFind(m)
    \/ \E m \in Insts : LoadOpen(m)
    \/ \E m \in Insts : LoadStat(m)
    \/ \E m \in Insts : TryReloadStat(m)
    \/ \E m \in Insts : mgr[m].pc = "fr_locate" /\ ForceReloadLocate(m)
    \/ \E m \in Insts : ForceReloadStage(m) /\ Retryable(m)
    \/ \E m \in Insts : ForceReloadTool(m)
    \/ \E m \in Insts : ForceReloadOpen(m) /\ Retryable(m)
    \/ \E m \in Insts : ForceReloadStat(m)
    \/ \E m \in Insts : GetSymbol(m)
    \/ Rebuild
    \/ RemoveArtifact

\* The loop never stops calling try_reload (weak fairness of its steps), and
\* a lookup that is tried again and again succeeds in the end.
PollSpec ==
    /\ Init
    /\ [][PollNext]_vars
    /\ \A m \in Pollers : WF_vars(Poll(m)) /\ SF_vars(Located(m))

\* ---------------------------------------------------------------- properties
\* A Manager exists: load has returned Ok and unload has not been called
Live == {"idle", "fr_locate", "fr_stage", "fr_tool", "fr_open", "fr_stat"}

\* A reloading call (try_reload or force_reload) has returned to the caller
Returned(m) == mgr[m].pc = "idle" /\ mgr[m].op \in {"try", "force"}

\* The errors a reloading call returns
ReloadErrors ==
    {"Io", "TargetNotFound", "NotADynamicLibrary", "ArtifactUnavailable",
     "StageFailed", "ReopenFailed"}

\* C1: a force_reload or try_reload that fails in staging (mkdir or copy) or in
\* opening the staged copy leaves the Manager with the very handle it had when
\* the call started, not closed, and get on it still succeeds.
C1_FailedStageOrOpenKeepsHandle ==
    \A m \in Insts :
        (Returned(m) /\ mgr[m].ret \in {"StageFailed", "ReopenFailed"})
            => /\ mgr[m].lib = mgr[m].old_lib
               /\ handles[mgr[m].lib].closed = 0
               /\ Get(m, "load_plugin").ok

\* C1 witness: a reload of a Manager that had already reloaded once failed to
\* open its staged copy
C1_Witness ==
    \E m \in Insts :
        Returned(m) /\ mgr[m].ret = "ReopenFailed" /\ mgr[m].commits = 1

\* C2 (as claimed): once a reload has committed, the export resolved through
\* the Manager is the build that reload staged, whatever the loader caches by.
C2_SymbolsFromStagedBuild ==
    \A m \in Insts :
        (mgr[m].pc = "idle" /\ mgr[m].commits > 0)
            => Get(m, "load_plugin") = Ok(mgr[m].staged)

\* C3: the staging paths computed by the reloads of one Manager, aborted ones
\* included, are pairwise different and different from the artifact path.
C3_StagingPathsNeverReused ==
    \A m \in Insts :
        /\ \A i, j \in 1..Len(mgr[m].paths) :
              i # j => mgr[m].paths[i] # mgr[m].paths[j]
        /\ \A i \in 1..Len(mgr[m].paths) :
              /\ mgr[m].paths[i] # mgr[m].lib_path
              /\ mgr[m].paths[i] # ArtifactPath

\* C3 witness: a second staging path was computed after a reload that aborted
C3_Witness ==
    \E m \in Insts :
        /\ Len(mgr[m].paths) = 2
        /\ mgr[m].commits = 0
        /\ mgr[m].pc = "fr_stage"

\* C4 (as claimed): the reload counter equals the number of committed reloads.
C4_CounterCountsCommits ==
    \A m \in Insts :
        mgr[m].pc \in Live => mgr[m].reload_counter = mgr[m].commits

\* C4 (amended): the reload counter is 0 after load and goes up by exactly one
\* each time a reload computes its staging path, whether that reload then
\* commits or aborts in staging or opening; a try_reload that finds the artifact
\* not stale or unreadable and a reload that fails while locating the artifact
\* leave it unchanged. So it equals the number of staging paths computed, and
\* is at least the number of committed reloads.
C4_CounterCountsStagingPaths ==
    \A m \in Insts :
        mgr[m].pc \in Live =>
            /\ mgr[m].reload_counter = Len(mgr[m].paths)
            /\ mgr[m].commits <= mgr[m].reload_counter
            /\ mgr[m].op = "load" => mgr[m].reload_counter = 0
            /\ Returned(m) =>
                  mgr[m].reload_counter =
                      mgr[m].old_counter
                          + (IF mgr[m].ret \in {"StageFailed", "ReopenFailed", "true", "ok"}
                                \/ mgr[m].swapped
                             THEN 1 ELSE 0)

\* C4 witness: a reload aborted in staging and the counter went up all the same
C4_Witness ==
    \E m \in Insts :
        /\ Returned(m)
        /\ mgr[m].ret = "StageFailed"
        /\ mgr[m].reload_counter = 1
        /\ mgr[m].commits = 0

\* C5: from load's success to unload, at every step of a reload and after a
\* failed one, the Manager owns exactly one Library that is not closed, it is
\* its active one, and its image is mapped.
C5_OneOpenHandle ==
    \A m \in Insts :
        mgr[m].pc \in Live =>
            /\ IsOpen(mgr[m].lib)
            /\ {h \in 1..Len(handles) : handles[h].owner = m /\ handles[h].closed = 0}
                   = {mgr[m].lib}

\* C5 witness: right after the swap, the superseded Library is closed and the
\* new one is the active one
C5_Witness ==
    \E m \in Insts :
        /\ mgr[m].pc = "fr_stat"
        /\ mgr[m].lib # mgr[m].old_lib
        /\ handles[mgr[m].old_lib].closed = 1

\* C6: a try_reload made while the artifact's timestamp has not changed since
\* the baseline was recorded (by load or by the last completed reload) returns
\* false and leaves the reload counter alone.
C6_QuietPollsReturnFalse ==
    \A m \in Insts :
        (mgr[m].op = "try" /\ mgr[m].was_quiet)
            => /\ mgr[m].pc \in {"idle", "unloaded"}
               /\ ~mgr[m].ran
               /\ mgr[m].ret = "false"
               /\ mgr[m].reload_counter = mgr[m].old_counter

\* C6 witness: such a poll after a committed reload, while the artifact holds
\* a newer build than the loaded one under the unchanged timestamp
C6_Witness ==
    \E m \in Insts :
        /\ mgr[m].pc = "idle" /\ mgr[m].op = "try"
        /\ mgr[m].was_quiet /\ mgr[m].ret = "false"
        /\ mgr[m].commits = 1
        /\ Exists(ArtifactPath)
        /\ files[ArtifactPath].bytes # images[handles[mgr[m].lib].img].bytes

\* C7 (as claimed): a reloading call that returns an error leaves the handle
\* the Manager had when the call started as its active, usable handle; the
\* active handle changes only in a call that returns success.
C7_ErrorKeepsHandle ==
    \A m \in Insts :
        Returned(m) =>
            /\ mgr[m].ret \in ReloadErrors
                  => mgr[m].lib = mgr[m].old_lib /\ IsOpen(mgr[m].lib)
            /\ mgr[m].lib # mgr[m].old_lib => mgr[m].ret \in {"true", "ok"}

\* C8 (as claimed): try_reload runs the reload protocol exactly when the
\* timestamp it reads differs from the baseline, returns true exactly when
\* that reload committed (swapped the handle), and false when they are equal.
C8_TryReloadByInequality ==
    \A m \in Insts :
        (mgr[m].pc = "idle" /\ mgr[m].op = "try") =>
            /\ mgr[m].ran <=> mgr[m].was_stale
            /\ (mgr[m].ret = "true") <=> mgr[m].swapped
            /\ (mgr[m].ret = "false") <=>
                  (~mgr[m].was_stale /\ mgr[m].ret # "ArtifactUnavailable")

\* C9 (as claimed): when the identity-reset tool exits non-zero or cannot be
\* spawned, the reload goes on to open the staged copy (and from there to the
\* caller, who may later unload); the call does not crash because of the tool.
C9_ToolFailureNotFatal ==
    \A m \in Insts :
        mgr[m].tool \in {"nonzero", "spawn_failed"}
            => /\ mgr[m].pc \in {"fr_open", "fr_stat", "idle", "unloaded"}
               /\ mgr[m].ret # "panic"

\* No package of the metadata has the target's manifest path
NoPackage(md, toml) ==
    \A i \in 1..Len(md.packages) : md.packages[i].manifest_path # toml

\* A package matches, and none of its targets is a dynamic library
NoDylibTarget(md, toml) ==
    /\ ~NoPackage(md, toml)
    /\ \A i \in 1..Len(md.packages) :
          md.packages[i].manifest_path = toml =>
              \A k \in 1..Len(md.packages[i].targets) :
                  \A c \in 1..Len(md.packages[i].targets[k].crate_types) :
                      md.packages[i].targets[k].crate_types[c] # "dylib"

\* C10: load never yields a Manager when no package matches the manifest path
\* or the matching package has no dylib target; once the manifest path
\* resolves, the lookup fails with TargetNotFound in the first case and with
\* NotADynamicLibrary in the second, and for no other reason. Every failed
\* load leaves no Manager, no open handle and nothing in the staging directory.
C10_LoadFailsCleanly ==
    \A m \in Insts :
        /\ (NoPackage(workspace, mgr[m].dylib_toml)
               \/ NoDylibTarget(workspace, mgr[m].dylib_toml))
              => mgr[m].pc \in {"start", "load_find", "load_failed"}
        /\ mgr[m].pc = "load_failed" =>
              /\ mgr[m].ret = "TargetNotFound"
                    <=> (/\ mgr[m].ret \notin {"MetadataFailed", "Io"}
                         /\ NoPackage(workspace, mgr[m].dylib_toml))
              /\ mgr[m].ret = "NotADynamicLibrary"
                    <=> (/\ mgr[m].ret \notin {"MetadataFailed", "Io"}
                         /\ NoDylibTarget(workspace, mgr[m].dylib_toml))
              /\ mgr[m].lib = 0
              /\ \A h \in 1..Len(handles) : handles[h].owner = m => ~IsOpen(h)
              /\ DOMAIN files \subseteq {ArtifactPath}

\* C10 witness: a load failed because no package matched
C10_Witness ==
    \E m \in Insts :
        mgr[m].pc = "load_failed" /\ mgr[m].ret = "TargetNotFound"

\* C11: for a Manager that has not reloaded yet (counter 0), a try_reload that
\* finds the timestamp different from the baseline, stages and opens, and still
\* finds the artifact when it reads the new baseline, returns true, leaves the
\* counter at 1, and the staged file exists under the name ending in -0 with
\* the bytes that were opened. A later try_reload made while the timestamp has
\* not changed since that baseline returns false and the counter stays 1,
\* whatever has happened to the artifact's bytes.
C11_FirstReloadThenQuietPoll ==
    \A m \in Insts :
        /\ (/\ Returned(m) /\ mgr[m].op = "try"
            /\ mgr[m].old_counter = 0 /\ mgr[m].was_stale
            /\ mgr[m].swapped /\ mgr[m].ret # "ArtifactUnavailable")
              => /\ mgr[m].ret = "true"
                 /\ mgr[m].reload_counter = 1
                 /\ mgr[m].tmp_dylib_path
                       = temp_dir \o "/hot_crate/plugins/libplugins-0." \o DYLIB_EXTENSION
                 /\ Exists(mgr[m].tmp_dylib_path)
                 /\ files[mgr[m].tmp_dylib_path].bytes = mgr[m].staged
        /\ (/\ mgr[m].pc = "idle" /\ mgr[m].op = "try" /\ mgr[m].was_quiet
            /\ mgr[m].commits = 1 /\ mgr[m].old_counter = 1)
              => /\ mgr[m].ret = "false"
                 /\ mgr[m].reload_counter = 1

\* C11 witness: the end of the scenario. The baseline is no longer the one
\* load recorded, one reload has committed from the -0 file, the artifact has
\* been rebuilt again under the same timestamp, and the poll returned false.
C11_Witness ==
    \E m \in Insts :
        /\ mgr[m].pc = "idle" /\ mgr[m].op = "try"
        /\ mgr[m].was_quiet /\ mgr[m].ret = "false"
        /\ mgr[m].commits = 1 /\ mgr[m].reload_counter = 1
        /\ mgr[m].lib_timestamp # Some(InitialMtime)
        /\ Exists(temp_dir \o "/hot_crate/plugins/libplugins-0." \o DYLIB_EXTENSION)
        /\ Exists(ArtifactPath)
        /\ Modified(ArtifactPath) = mgr[m].lib_timestamp
        /\ files[ArtifactPath].bytes # mgr[m].staged

\* The operations a caller can start on a Manager, and the steps inside them
Operation(m) ==
    \/ TryReloadStat(m) \/ ForceReloadLocate(m) \/ ForceReloadStage(m)
    \/ ForceReloadTool(m) \/ ForceReloadOpen(m) \/ ForceReloadStat(m)
    \/ GetSymbol(m) \/ Unload(m)

\* C12: no Library is ever closed twice. While the Manager lives, of the
\* Libraries it opened exactly the active one is not closed; the superseded one
\* is already closed in the state right after the swap. After unload every
\* Library the Manager opened has been closed exactly once, none is usable,
\* and no operation on the Manager is possible.
C12_EveryHandleClosedOnce ==
    /\ \A h \in 1..Len(handles) : handles[h].closed <= 1
    /\ \A m \in Insts :
          /\ mgr[m].pc \in Live =>
                \A h \in 1..Len(handles) :
                    handles[h].owner = m =>
                        handles[h].closed = (IF h = mgr[m].lib THEN 0 ELSE 1)
          /\ mgr[m].pc = "fr_stat" =>
                /\ mgr[m].lib # mgr[m].old_lib
                /\ handles[mgr[m].old_lib].closed = 1
          /\ mgr[m].pc = "unloaded" =>
                /\ \A h \in 1..Len(handles) :
                      handles[h].owner = m => handles[h].closed = 1 /\ ~IsOpen(h)
                /\ ~ENABLED Operation(m)

\* C12 witness: a Manager that reloaded once has been unloaded
C12_Witness ==
    \E m \in Insts :
        /\ mgr[m].pc = "unloaded"
        /\ mgr[m].commits = 1
        /\ Len(handles) = 2
        /\ handles[mgr[m].lib].closed = 1

\* What a try_reload that does not reload has no business touching: the
\* Manager's fields, the filesystem (staging directory included), the loader
Frame(m) ==
    <<mgr[m].lib, mgr[m].lib_timestamp, mgr[m].reload_counter, mgr[m].lib_path,
      mgr[m].main_metadata, mgr[m].dylib_toml, files, handles, images>>

\* C13: a try_reload that reads a timestamp equal to the baseline returns
\* false and leaves the active handle, the baseline, the counter, the recorded
\* artifact path, the filesystem and the loader as they were.
C13_NotStaleChangesNothing ==
    [][\A m \in Insts :
          (/\ TryReloadStat(m)
           /\ Exists(mgr[m].lib_path)
           /\ Modified(mgr[m].lib_path) = mgr[m].lib_timestamp)
             => /\ mgr'[m].pc = "idle"
                /\ mgr'[m].ret = "false"
                /\ Frame(m)' = Frame(m)]_vars

\* C13 witness: such a poll returned after one reload had committed, so the
\* staging directory was not empty
C13_Witness ==
    \E m \in Insts :
        /\ mgr[m].pc = "idle" /\ mgr[m].op = "try" /\ mgr[m].ret = "false"
        /\ mgr[m].commits = 1
        /\ mgr[m].lib = mgr[m].old_lib
        /\ Exists(mgr[m].tmp_dylib_path)
        /\ Modified(mgr[m].lib_path) = mgr[m].lib_timestamp

\* C14: a try_reload that cannot read the artifact's metadata (the file is not
\* there) returns ArtifactUnavailable without starting a reload and leaves the
\* active handle, the baseline, the counter, the filesystem and the loader as
\* they were.
C14_MissingArtifactIsAnError ==
    [][\A m \in Insts :
          (TryReloadStat(m) /\ ~Exists(mgr[m].lib_path))
             => /\ mgr'[m].pc = "idle"
                /\ mgr'[m].ret = "ArtifactUnavailable"
                /\ ~mgr'[m].ran
                /\ Frame(m)' = Frame(m)]_vars

\* C14 witness: the poll of a Manager that had reloaded once failed so
C14_Witness ==
    \E m \in Insts :
        /\ mgr[m].pc = "idle" /\ mgr[m].op = "try"
        /\ mgr[m].ret = "ArtifactUnavailable" /\ ~mgr[m].ran
        /\ mgr[m].commits = 1
        /\ ~Exists(mgr[m].lib_path)
        /\ IsOpen(mgr[m].lib)

\* C16: force_reload runs whatever the timestamps say. Called while the
\* artifact's timestamp equals the baseline it starts the reload and, once the
\* lookups succeed, has a staging path it never used before. When such a call
\* has staged and opened and the artifact is there to be read, it returns Ok
\* with a new, open active Library, the previous one closed, the staged copy in
\* place, and the baseline equal to the artifact's timestamp at that moment.
\* A try_reload that follows with the timestamp unchanged returns false.
C16_ForceReloadIgnoresStaleness ==
    [][\A m \in Insts :
          /\ (/\ ForceReloadLocate(m) /\ mgr[m].pc = "idle"
              /\ Exists(mgr[m].lib_path)
              /\ Modified(mgr[m].lib_path) = mgr[m].lib_timestamp)
                => /\ mgr'[m].op = "force" /\ mgr'[m].ran
                   /\ mgr'[m].pc = "fr_stage" =>
                         /\ mgr'[m].tmp_dylib_path \notin DOMAIN files
                         /\ \A i \in 1..Len(mgr[m].paths) :
                               mgr[m].paths[i] # mgr'[m].tmp_dylib_path
          /\ (/\ ForceReloadStat(m) /\ mgr[m].op = "force" /\ mgr[m].was_quiet
              /\ Exists(mgr[m].lib_path))
                => /\ mgr'[m].pc = "idle" /\ mgr'[m].ret = "ok"
                   /\ mgr'[m].lib # mgr[m].old_lib
                   /\ IsOpen(mgr'[m].lib)
                   /\ handles[mgr[m].old_lib].closed = 1
                   /\ Exists(mgr[m].tmp_dylib_path)
                   /\ files[mgr[m].tmp_dylib_path].bytes = mgr[m].staged
                   /\ mgr'[m].lib_timestamp = Modified(mgr'[m].lib_path)
          /\ (/\ TryReloadStat(m)
              /\ mgr[m].op = "force" /\ mgr[m].ret = "ok" /\ mgr[m].quiet)
                => /\ mgr'[m].pc = "idle" /\ mgr'[m].ret = "false"
                   /\ mgr'[m].lib = mgr[m].lib]_vars

\* C16 witness: a force_reload called in a quiet period has returned Ok with
\* another Library, and the artifact has not changed since
C16_Witness ==
    \E m \in Insts :
        /\ mgr[m].pc = "idle" /\ mgr[m].op = "force"
        /\ mgr[m].was_quiet /\ mgr[m].quiet
        /\ mgr[m].ret = "ok"
        /\ mgr[m].lib # mgr[m].old_lib
        /\ mgr[m].lib_timestamp = mgr[m].old_timestamp

\* The build the Manager's active Library was mapped from
ActiveBytes(m) == images[handles[mgr[m].lib].img].bytes

\* C17 (as claimed): when the builder has rewritten the artifact, with new
\* bytes and another timestamp, after load opened it (lib.rs:71) or after a
\* reload copied it (lib.rs:143), then at the successful return either the
\* active Library holds the artifact's bytes or the baseline differs from the
\* artifact's timestamp. The initial build is build 1 with InitialMtime; a
\* staged file's record keeps the timestamp the artifact had when it was copied.
C17_NoLostUpdate ==
    [][\A m \in Insts :
          /\ (/\ LoadStat(m) /\ Exists(mgr[m].lib_path)
              /\ ActiveBytes(m) = 1
              /\ files[mgr[m].lib_path].bytes # 1
              /\ files[mgr[m].lib_path].mtime # InitialMtime)
                => \/ files[mgr[m].lib_path].bytes = ActiveBytes(m)
                   \/ mgr'[m].lib_timestamp # Modified(mgr[m].lib_path)
          /\ (/\ ForceReloadStat(m) /\ Exists(mgr[m].lib_path)
              /\ mgr[m].tool # "nonzero"
              /\ files[mgr[m].lib_path].bytes # files[mgr[m].tmp_dylib_path].bytes
              /\ files[mgr[m].lib_path].mtime # files[mgr[m].tmp_dylib_path].mtime)
                => \/ files[mgr[m].lib_path].bytes = ActiveBytes(m)
                   \/ mgr'[m].lib_timestamp # Modified(mgr[m].lib_path)]_vars

\* The builder has finished, its last build is there, and the Manager, with a
\* reload left, sits between calls on a baseline that differs from it
StaleAtRest(m) ==
    /\ mgr[m].pc = "idle"
    /\ builds = MaxBuild
    /\ mgr[m].reload_counter < MaxReloads
    /\ Exists(mgr[m].lib_path)
    /\ Modified(mgr[m].lib_path) # mgr[m].lib_timestamp

\* A try_reload has just committed and recorded the artifact's timestamp
Caught(m) ==
    /\ mgr[m].pc = "idle" /\ mgr[m].op = "try"
    /\ mgr[m].ret = "true" /\ mgr[m].swapped
    /\ Exists(mgr[m].lib_path)
    /\ mgr[m].lib_timestamp = Modified(mgr[m].lib_path)

\* C15: a reload that aborts in staging or in opening returns with the
\* baseline it started with; a try_reload that reads a timestamp different
\* from the baseline always goes on into force_reload; and under a caller that
\* keeps polling, once the builder is done and the baseline differs from the
\* artifact's timestamp, a try_reload eventually commits and records that
\* timestamp, unless the artifact is removed or the process panics (C9).
C15_RetryByPolling ==
    /\ [](\A m \in Insts :
            (Returned(m) /\ mgr[m].ret \in {"StageFailed", "ReopenFailed"})
               => /\ mgr[m].lib_timestamp = mgr[m].old_timestamp
                  /\ mgr[m].lib = mgr[m].old_lib)
    /\ [][\A m \in Insts :
            (/\ TryReloadStat(m)
             /\ Exists(mgr[m].lib_path)
             /\ Modified(mgr[m].lib_path) # mgr[m].lib_timestamp)
               => mgr'[m].pc = "fr_locate"]_vars
    /\ \A m \in Pollers :
          StaleAtRest(m) ~>
              (Caught(m) \/ ~Exists(ArtifactPath) \/ mgr[m].pc = "panicked")

\* C15 witness: a try_reload committed and recorded the timestamp after an
\* earlier reload of the same Manager had aborted
C15_Witness ==
    \E m \in Insts :
        /\ Caught(m)
        /\ mgr[m].commits = 1
        /\ mgr[m].reload_counter = 2

\* C18 (as claimed): no staging copy of any Manager writes to the file that
\* the active Library of a live Manager, itself or another one loaded for the
\* same target, was opened from.
C18_ActiveStagedFileNotOverwritten ==
    [][\A m \in Insts :
          (ForceReloadStage(m) /\ mgr'[m].pc # "idle")
             => \A n \in Insts :
                   mgr[n].pc \in Live
                      => images[handles[mgr[n].lib].img].path # mgr[m].tmp_dylib_path]_vars

====
